---- MODULE Spec2Model ----
(***************************************************************************)
(* Minimax-regret portfolio selection of src/support.py.                   *)
(*                                                                         *)
(* Spec models one call of solve_minimax_regret_optimization, cut at the   *)
(* calls it makes: the eligibility filter, calculate_effective_returns,    *)
(* the three scenario-ideal solves of calculate_optimal_scenario_returns,  *)
(* the check of the ideals, the main solve and the assembly of the result. *)
(* The integer-program solver (PuLP/CBC) is outside the repository; it is  *)
(* modelled by its contract: it either raises, or reports Infeasible when  *)
(* no assignment satisfies the constraints, or reports Optimal with one of *)
(* the optimal assignments (which one is the solver's choice).             *)
(*                                                                         *)
(* Numbers of Spec are exact: a confidence c stands for c / One, and every *)
(* effective return, scenario ideal, regret and theta is held multiplied   *)
(* by One, so that the blend of line 25 stays in the integers.  Costs, the *)
(* budget, raw returns and the worst-return floor are unscaled.            *)
(*                                                                         *)
(* SpecFl models line 25 alone in binary floating point of Prec            *)
(* significant bits with round-half-even, the arithmetic Python's float    *)
(* performs with 53 bits.                                                  *)
(***************************************************************************)
EXTENDS Integers, Sequences, FiniteSets, TLC

VARIABLES
    initiatives_data,            \* the caller's list of initiative records
    total_budget,
    min_confidence_threshold,
    min_portfolio_worst_return,
    confidence_penalty_func,     \* "calculate_gamma" (default) or "clamped"
    pc,                          \* position inside the call
    eligible_initiatives,        \* indices into initiatives_data, in order
    V_j_star,                    \* scenario -> ideal value or NegInf
    prob,                        \* outcome of the main solve
    result,                      \* << >> until the call returns, then <<r>>
    gammaCalls,                  \* history: calls of the penalty model
    idealSolves,                 \* history: scenario-ideal solver invocations
    mainSolves,                  \* history: main solver invocations
    failedScenarios,             \* history: scenarios whose solve failed
    raisedSolves,                \* history: solver invocations that raised
    fl                           \* SpecFl: one initiative in floating point

vars == <<initiatives_data, total_budget, min_confidence_threshold,
          min_portfolio_worst_return, confidence_penalty_func, pc,
          eligible_initiatives, V_j_star, prob, result, gammaCalls,
          idealSolves, mainSolves, failedScenarios, raisedSolves, fl>>

pipelineVars == <<initiatives_data, total_budget, min_confidence_threshold,
                  min_portfolio_worst_return, confidence_penalty_func, pc,
                  eligible_initiatives, V_j_star, prob, result, gammaCalls,
                  idealSolves, mainSolves, failedScenarios, raisedSolves>>

----------------------------------------------------------------------------
(* Bounds and input domains *)

MaxInitiatives == 2

\* the literal 1 of calculate_gamma: confidences are counted in halves
One == 2

NegInf == 0 - 1000000

Costs == {0, 1}
ReturnTriples == { <<6, 2, 0>>, <<2, 2, 2>>, <<2, 0, 0 - 2>> }
Budgets == {0 - 1, 0, 1}
Thresholds == {0 - 1, 1, One + 1}
Floors == {0, 1}
PenaltyFuncs == {"calculate_gamma", "clamped"}

scenarios == <<"best", "med", "worst">>
ScenarioSet == {"best", "med", "worst"}

EmptyMap == [s \in {} |-> 0]
ZeroMap == [s \in ScenarioSet |-> 0]

None == {}
Some(v) == {v}
TheValue(o) == CHOOSE v \in o : TRUE

----------------------------------------------------------------------------
(* Helpers *)

RECURSIVE lpSum(_, _)
lpSum(f, S) ==
    IF S = {} THEN 0
    ELSE LET i == CHOOSE j \in S : TRUE IN f[i] + lpSum(f, S \ {i})

Range(seq) == { seq[k] : k \in 1..Len(seq) }

MaxOf(S) == CHOOSE v \in S : \A w \in S : w <= v
MinOf(S) == CHOOSE v \in S : \A w \in S : v <= w

R_base_map(initiative) ==
    [s \in ScenarioSet |->
        IF s = "best" THEN initiative.R_best
        ELSE IF s = "med" THEN initiative.R_med
        ELSE initiative.R_worst]

----------------------------------------------------------------------------
(* 1. Helper functions of support.py *)

\* mutant: the upper end of the range is not checked
M_GammaRaises_LowerOnly(confidence_score) == confidence_score < 0

\* line 7: the guard of calculate_gamma
GammaRaises(confidence_score) ==
    ~(0 <= confidence_score /\ confidence_score <= One)

\* line 9
calculate_gamma(confidence_score) == One - confidence_score

\* a caller-supplied penalty model that clamps instead of raising
clamped(confidence_score) ==
    One - (IF confidence_score < 0 THEN 0
           ELSE IF confidence_score > One THEN One
           ELSE confidence_score)

PenaltyRaises(func, confidence_score) ==
    func = "calculate_gamma" /\ GammaRaises(confidence_score)

Penalty(func, confidence_score) ==
    IF func = "calculate_gamma" THEN calculate_gamma(confidence_score)
    ELSE clamped(confidence_score)

\* line 25, times One
Blend(gamma_i, R_ij_base, R_worst) ==
    (One - gamma_i) * R_ij_base + gamma_i * R_worst

\* lines 14-26: one iteration of the loop of calculate_effective_returns
Augment(initiative, func) ==
    LET gamma_i == Penalty(func, initiative.confidence)
    IN  [initiative EXCEPT
            !.gamma = Some(gamma_i),
            !.effective_returns =
                [s \in ScenarioSet |->
                    Blend(gamma_i, R_base_map(initiative)[s], initiative.R_worst)]]

\* position in the list of the first initiative whose penalty raises
FirstRaise(inits, elig, func) ==
    LET bad == { k \in 1..Len(elig) :
                    PenaltyRaises(func, inits[elig[k]].confidence) }
    IN  IF bad = {} THEN Len(elig) + 1 ELSE MinOf(bad)

\* lines 11-27: the records are augmented in place, in list order, up to
\* the first one whose penalty raises
calculate_effective_returns(inits, elig, func) ==
    LET stop == FirstRaise(inits, elig, func)
    IN  [i \in 1..Len(inits) |->
            IF \E k \in 1..(stop - 1) : elig[k] = i
            THEN Augment(inits[i], func)
            ELSE inits[i]]

\* lines 36 and 96: a portfolio's total effective return in a scenario
EffectiveReturn(inits, S, s) ==
    lpSum([i \in S |-> inits[i].effective_returns[s]], S)

TotalCost(inits, S) == lpSum([i \in S |-> inits[i].cost], S)

TotalWorst(inits, S) == lpSum([i \in S |-> inits[i].R_worst], S)

\* mutant: the budget constraint is strict
M_ScenarioFeasible_Strict(inits, elig, budget) ==
    { S \in SUBSET Range(elig) : TotalCost(inits, S) < budget }

\* line 37: the assignments the budget constraint admits
ScenarioFeasible(inits, elig, budget) ==
    { S \in SUBSET Range(elig) : TotalCost(inits, S) <= budget }

\* mutant: the scenario problem is minimised
M_ScenarioValue_Min(inits, elig, budget, s) ==
    LET feasible == { S \in SUBSET Range(elig) : TotalCost(inits, S) <= budget }
    IN  IF feasible = {} THEN NegInf
        ELSE MinOf({ EffectiveReturn(inits, S, s) : S \in feasible })

\* lines 34-49: what a completed scenario solve stores
ScenarioValue(inits, elig, budget, s) ==
    LET feasible == ScenarioFeasible(inits, elig, budget)
    IN  IF feasible = {} THEN NegInf
        ELSE MaxOf({ EffectiveReturn(inits, S, s) : S \in feasible })

----------------------------------------------------------------------------
(* 2. solve_minimax_regret_optimization *)

\* mutant: the comparison of the filter is inverted
M_Eligible_Inverted(initiative, threshold) == initiative.confidence <= threshold

\* line 61
Eligible(initiative, threshold) == initiative.confidence >= threshold

FilterEligible(inits, threshold) ==
    LET Test(i) == Eligible(inits[i], threshold)
    IN  SelectSeq([i \in 1..Len(inits) |-> i], Test)

\* lines 63-71
NoEligibleResult ==
    [status |-> "No Eligible Initiatives",
     min_max_regret |-> None,
     selected_initiatives |-> << >>,
     total_cost |-> 0,
     total_actual_returns |-> ZeroMap,
     v_j_star |-> EmptyMap,
     regrets_for_selected_portfolio |-> EmptyMap]

\* lines 77-85 and 105-113
ErrorResult(status, V) ==
    [status |-> status,
     min_max_regret |-> None,
     selected_initiatives |-> << >>,
     total_cost |-> 0,
     total_actual_returns |-> ZeroMap,
     v_j_star |-> V,
     regrets_for_selected_portfolio |-> EmptyMap]

\* mutant: only the first scenario is checked
M_AnyNegInf_FirstOnly(V) == V["best"] = NegInf

\* line 76
AnyNegInf(V) == \E s \in DOMAIN V : V[s] = NegInf

\* mutant: the budget constraint of the main problem is missing
M_MainFeasible_NoBudget(inits, elig, budget, floor) ==
    { S \in SUBSET Range(elig) : TotalWorst(inits, S) >= floor }

\* lines 98-99: the assignments of x the budget and floor constraints admit
MainFeasible(inits, elig, budget, floor) ==
    { S \in SUBSET Range(elig) :
        /\ TotalCost(inits, S) <= budget
        /\ TotalWorst(inits, S) >= floor }

\* mutant: only the best scenario constrains theta
M_ThetaFor_BestOnly(inits, V, S) ==
    MaxOf({0, V["best"] - EffectiveReturn(inits, S, "best")})

\* lines 90 and 94-96: the least theta the constraints admit for selection S
ThetaFor(inits, V, S) ==
    MaxOf({0} \cup { V[s] - EffectiveReturn(inits, S, s) : s \in ScenarioSet })

\* lines 88-103: the optimal value of the objective theta
ThetaOpt(inits, elig, budget, floor, V) ==
    MinOf({ ThetaFor(inits, V, S) : S \in MainFeasible(inits, elig, budget, floor) })

\* mutant: the regrets are computed whatever the status
M_AssembleResult_NoStatusGuard(inits, elig, V, p) ==
    LET optimal == p.status = "Optimal"
        Chosen(i) == i \in p.x
        picked == IF optimal THEN SelectSeq(elig, Chosen) ELSE << >>
        S == Range(picked)
        returns == [s \in ScenarioSet |-> EffectiveReturn(inits, S, s)]
    IN  [status |-> p.status,
         min_max_regret |-> IF optimal THEN p.objective ELSE None,
         selected_initiatives |-> [k \in 1..Len(picked) |-> inits[picked[k]].id],
         total_cost |-> TotalCost(inits, S),
         total_actual_returns |-> returns,
         v_j_star |-> V,
         regrets_for_selected_portfolio |->
            [s \in ScenarioSet |-> V[s] - returns[s]]]

\* mutant: the regret is the return minus the ideal
M_AssembleResult_FlippedRegret(inits, elig, V, p) ==
    LET optimal == p.status = "Optimal"
        Chosen(i) == i \in p.x
        picked == IF optimal THEN SelectSeq(elig, Chosen) ELSE << >>
        S == Range(picked)
        returns == [s \in ScenarioSet |-> EffectiveReturn(inits, S, s)]
    IN  [status |-> p.status,
         min_max_regret |-> IF optimal THEN p.objective ELSE None,
         selected_initiatives |-> [k \in 1..Len(picked) |-> inits[picked[k]].id],
         total_cost |-> TotalCost(inits, S),
         total_actual_returns |-> returns,
         v_j_star |-> V,
         regrets_for_selected_portfolio |->
            IF optimal THEN [s \in ScenarioSet |-> returns[s] - V[s]]
            ELSE ZeroMap]

\* lines 115-141
AssembleResult(inits, elig, V, p) ==
    LET optimal == p.status = "Optimal"
        Chosen(i) == i \in p.x
        picked == IF optimal THEN SelectSeq(elig, Chosen) ELSE << >>
        S == Range(picked)
        returns == [s \in ScenarioSet |-> EffectiveReturn(inits, S, s)]
    IN  [status |-> p.status,
         min_max_regret |-> IF optimal THEN p.objective ELSE None,
         selected_initiatives |-> [k \in 1..Len(picked) |-> inits[picked[k]].id],
         total_cost |-> TotalCost(inits, S),
         total_actual_returns |-> returns,
         v_j_star |-> V,
         regrets_for_selected_portfolio |->
            IF optimal THEN [s \in ScenarioSet |-> V[s] - returns[s]]
            ELSE ZeroMap]

----------------------------------------------------------------------------
(* State machine of one call *)

\* confidence 1/2 or 1 with every cost and return triple; confidence 0; and
\* the two confidences outside [0, 1]
InitiativeDomain ==
    [cost : Costs, confidence : 1..One, returns : ReturnTriples]
    \cup [cost : {1}, confidence : {0, 0 - 1, One + 1}, returns : { <<6, 2, 0>> }]

MakeInitiative(k, d) ==
    [id |-> k, cost |-> d.cost, confidence |-> d.confidence,
     R_best |-> d.returns[1], R_med |-> d.returns[2], R_worst |-> d.returns[3],
     gamma |-> None, effective_returns |-> EmptyMap]

InitiativeLists ==
    UNION { { [k \in 1..n |-> MakeInitiative(k, ds[k])] :
                ds \in [1..n -> InitiativeDomain] } : n \in 0..MaxInitiatives }

NotSolved == [status |-> "Not Solved", x |-> {}, objective |-> None]

FlIdle == [pc |-> "idle"]

Init ==
    /\ initiatives_data \in InitiativeLists
    /\ total_budget \in Budgets
    /\ min_confidence_threshold \in Thresholds
    /\ min_portfolio_worst_return \in Floors
    /\ confidence_penalty_func \in PenaltyFuncs
    /\ pc = "filter"
    /\ eligible_initiatives = << >>
    /\ V_j_star = EmptyMap
    /\ prob = NotSolved
    /\ result = << >>
    /\ gammaCalls = 0
    /\ idealSolves = 0
    /\ mainSolves = 0
    /\ failedScenarios = {}
    /\ raisedSolves = 0
    /\ fl = FlIdle

\* lines 61-71
Filter ==
    /\ pc = "filter"
    /\ LET elig == FilterEligible(initiatives_data, min_confidence_threshold)
       IN  /\ eligible_initiatives' = elig
           /\ IF elig = << >>
              THEN /\ result' = <<NoEligibleResult>>
                   /\ pc' = "done"
              ELSE /\ result' = result
                   /\ pc' = "effective_returns"
    /\ UNCHANGED <<initiatives_data, total_budget, min_confidence_threshold,
                   min_portfolio_worst_return, confidence_penalty_func,
                   V_j_star, prob, gammaCalls, idealSolves, mainSolves,
                   failedScenarios, raisedSolves, fl>>

\* line 73: a ValueError of the penalty model leaves the call
CalcEffectiveReturns ==
    /\ pc = "effective_returns"
    /\ LET stop == FirstRaise(initiatives_data, eligible_initiatives,
                              confidence_penalty_func)
           n == Len(eligible_initiatives)
       IN  /\ initiatives_data' =
                calculate_effective_returns(initiatives_data,
                    eligible_initiatives, confidence_penalty_func)
           /\ gammaCalls' = gammaCalls + (IF stop <= n THEN stop ELSE n)
           /\ pc' = IF stop <= n THEN "aborted" ELSE "scenario_returns"
    /\ UNCHANGED <<total_budget, min_confidence_threshold,
                   min_portfolio_worst_return, confidence_penalty_func,
                   eligible_initiatives, V_j_star, prob, result, idealSolves,
                   mainSolves, failedScenarios, raisedSolves, fl>>

\* lines 33-49: one iteration of the loop of calculate_optimal_scenario_returns
SolveScenario ==
    /\ pc = "scenario_returns"
    /\ LET scenario_name == scenarios[Cardinality(DOMAIN V_j_star) + 1]
       IN  \E raises \in BOOLEAN :
             LET value == IF raises THEN NegInf
                          ELSE ScenarioValue(initiatives_data,
                                   eligible_initiatives, total_budget,
                                   scenario_name)
             IN  /\ V_j_star' = (scenario_name :> value) @@ V_j_star
                 /\ failedScenarios' =
                        IF raises \/ ScenarioFeasible(initiatives_data,
                                eligible_initiatives, total_budget) = {}
                        THEN failedScenarios \cup {scenario_name}
                        ELSE failedScenarios
                 /\ raisedSolves' = raisedSolves + (IF raises THEN 1 ELSE 0)
                 /\ pc' = IF scenario_name = "worst" THEN "check"
                          ELSE "scenario_returns"
    /\ idealSolves' = idealSolves + 1
    /\ UNCHANGED <<initiatives_data, total_budget, min_confidence_threshold,
                   min_portfolio_worst_return, confidence_penalty_func,
                   eligible_initiatives, prob, result, gammaCalls, mainSolves,
                   fl>>

\* lines 76-85
CheckIdeals ==
    /\ pc = "check"
    /\ IF AnyNegInf(V_j_star)
       THEN /\ result' = <<ErrorResult("Error in V_j_star calculation", V_j_star)>>
            /\ pc' = "done"
       ELSE /\ result' = result
            /\ pc' = "main"
    /\ UNCHANGED <<initiatives_data, total_budget, min_confidence_threshold,
                   min_portfolio_worst_return, confidence_penalty_func,
                   eligible_initiatives, V_j_star, prob, gammaCalls,
                   idealSolves, mainSolves, failedScenarios, raisedSolves, fl>>

\* lines 87-113: the solver raises
SolveMainRaises ==
    /\ pc = "main"
    /\ mainSolves' = mainSolves + 1
    /\ raisedSolves' = raisedSolves + 1
    /\ result' = <<ErrorResult("Error solving main problem", V_j_star)>>
    /\ pc' = "done"
    /\ UNCHANGED <<initiatives_data, total_budget, min_confidence_threshold,
                   min_portfolio_worst_return, confidence_penalty_func,
                   eligible_initiatives, V_j_star, prob, gammaCalls,
                   idealSolves, failedScenarios, fl>>

\* lines 87-103 and 115-116: the solver completes
SolveMain ==
    /\ pc = "main"
    /\ mainSolves' = mainSolves + 1
    /\ LET feasible == MainFeasible(initiatives_data, eligible_initiatives,
                                    total_budget, min_portfolio_worst_return)
       IN  IF feasible = {}
           THEN prob' = [status |-> "Infeasible", x |-> {}, objective |-> None]
           ELSE LET opt == ThetaOpt(initiatives_data, eligible_initiatives,
                                    total_budget, min_portfolio_worst_return,
                                    V_j_star)
                IN  \E S \in feasible :
                      /\ ThetaFor(initiatives_data, V_j_star, S) = opt
                      /\ prob' = [status |-> "Optimal", x |-> S,
                                  objective |-> Some(opt)]
    /\ pc' = "assemble"
    /\ UNCHANGED <<initiatives_data, total_budget, min_confidence_threshold,
                   min_portfolio_worst_return, confidence_penalty_func,
                   eligible_initiatives, V_j_star, result, gammaCalls,
                   idealSolves, failedScenarios, raisedSolves, fl>>

\* lines 115-141
Assemble ==
    /\ pc = "assemble"
    /\ result' = <<AssembleResult(initiatives_data, eligible_initiatives,
                                  V_j_star, prob)>>
    /\ pc' = "done"
    /\ UNCHANGED <<initiatives_data, total_budget, min_confidence_threshold,
                   min_portfolio_worst_return, confidence_penalty_func,
                   eligible_initiatives, V_j_star, prob, gammaCalls,
                   idealSolves, mainSolves, failedScenarios, raisedSolves, fl>>

Next ==
    \/ Filter
    \/ CalcEffectiveReturns
    \/ SolveScenario
    \/ CheckIdeals
    \/ SolveMainRaises
    \/ SolveMain
    \/ Assemble

Spec == Init /\ [][Next]_vars

TypeOK ==
    /\ pc \in {"filter", "effective_returns", "scenario_returns", "check",
               "main", "assemble", "done", "aborted", "idle"}
    /\ Len(result) <= 1
    /\ DOMAIN V_j_star \subseteq ScenarioSet

----------------------------------------------------------------------------
(* Properties.  They restate the claims from the inputs and the returned   *)
(* Result, with their own sums and sets.                                   *)

Returned == pc = "done" /\ Len(result) = 1
Res == result[1]
IsOptimal == Returned /\ Res.status = "Optimal"

Indices == 1..Len(initiatives_data)

RECURSIVE SumOf(_, _)
SumOf(f, S) ==
    IF S = {} THEN 0
    ELSE LET i == MinOf(S) IN SumOf(f, S \ {i}) + f[i]

EligibleSet ==
    { i \in Indices :
        initiatives_data[i].confidence >= min_confidence_threshold }

CostOf(S) == SumOf([i \in Indices |-> initiatives_data[i].cost], S)
WorstOf(S) == SumOf([i \in Indices |-> initiatives_data[i].R_worst], S)
ReturnOf(S, s) ==
    SumOf([i \in S |-> initiatives_data[i].effective_returns[s]], S)

\* the subsets the claims quantify over
Admissible ==
    { S \in SUBSET EligibleSet :
        /\ CostOf(S) <= total_budget
        /\ WorstOf(S) >= min_portfolio_worst_return }

WorstCaseRegret(S) ==
    MaxOf({ Res.v_j_star[s] - ReturnOf(S, s) : s \in ScenarioSet })

\* ids are list positions
SelectedSet == Range(Res.selected_initiatives)

\* C1: on status Optimal, min_max_regret is the least worst-case regret over
\* the eligible subsets within budget and above the worst-return floor, and
\* no such subset has a smaller worst-case regret than the selection
C1_MinimaxOptimal ==
    IsOptimal =>
        /\ SelectedSet \in Admissible
        /\ Res.min_max_regret =
              Some(MinOf({ WorstCaseRegret(S) : S \in Admissible }))
        /\ \A S \in Admissible :
              WorstCaseRegret(S) >= WorstCaseRegret(SelectedSet)

\* the optimum is positive, the floor excludes a subset within budget, and
\* the admissible subsets differ in worst-case regret
C1_Witness ==
    /\ IsOptimal
    /\ SelectedSet # {}
    /\ Res.min_max_regret # Some(0)
    /\ \E S \in Admissible : WorstCaseRegret(S) > WorstCaseRegret(SelectedSet)
    /\ \E S \in SUBSET EligibleSet :
          CostOf(S) <= total_budget /\ S \notin Admissible

\* C2: on status Optimal the selection holds only eligible ids, total_cost is
\* the sum of their costs and within budget, and their raw worst returns sum
\* to at least the floor
C2_SelectionFeasible ==
    IsOptimal =>
        /\ SelectedSet \subseteq EligibleSet
        /\ Cardinality(SelectedSet) = Len(Res.selected_initiatives)
        /\ Res.total_cost = CostOf(SelectedSet)
        /\ Res.total_cost <= total_budget
        /\ WorstOf(SelectedSet) >= min_portfolio_worst_return

\* a non-empty selection where the budget excludes the whole eligible set and
\* the floor excludes the empty selection
C2_Witness ==
    /\ IsOptimal
    /\ SelectedSet # {}
    /\ SelectedSet # EligibleSet
    /\ min_portfolio_worst_return > 0
    /\ CostOf(EligibleSet) > total_budget

\* C3: a Result whose status is not Optimal has an empty selection, total
\* cost 0, all-zero returns, no min_max_regret, and regrets 0 or absent
C3_NonOptimalEmpty ==
    (Returned /\ Res.status # "Optimal") =>
        /\ Res.selected_initiatives = << >>
        /\ Res.total_cost = 0
        /\ \A s \in ScenarioSet : Res.total_actual_returns[s] = 0
        /\ Res.min_max_regret = None
        /\ \A s \in DOMAIN Res.regrets_for_selected_portfolio :
              Res.regrets_for_selected_portfolio[s] = 0

\* the main solve reported Infeasible with positive scenario ideals
C3_Witness ==
    /\ Returned
    /\ Res.status = "Infeasible"
    /\ \E s \in ScenarioSet : Res.v_j_star[s] > 0
    /\ DOMAIN Res.regrets_for_selected_portfolio = ScenarioSet

\* C4: on status Optimal every per-scenario regret is V_j_star[s] minus the
\* selection's effective return and is not negative
C4_RegretNonNegative ==
    IsOptimal =>
        \A s \in ScenarioSet :
            /\ Res.regrets_for_selected_portfolio[s] =
                  Res.v_j_star[s] - ReturnOf(SelectedSet, s)
            /\ Res.total_actual_returns[s] = ReturnOf(SelectedSet, s)
            /\ Res.regrets_for_selected_portfolio[s] >= 0

\* a non-empty selection with zero regret in one scenario and positive
\* regret in another
C4_Witness ==
    /\ IsOptimal
    /\ SelectedSet # {}
    /\ \E s \in ScenarioSet : Res.regrets_for_selected_portfolio[s] = 0
    /\ \E s \in ScenarioSet : Res.regrets_for_selected_portfolio[s] > 0

\* the input contract of C5 on a non-empty eligible list
C5_Contract ==
    /\ EligibleSet # {}
    /\ \A i \in EligibleSet :
          /\ initiatives_data[i].cost >= 0
          /\ initiatives_data[i].confidence >= 0
          /\ initiatives_data[i].confidence <= One

C5_Outcome ==
    /\ \A s \in DOMAIN V_j_star : V_j_star[s] = 0
    /\ Returned =>
          IF min_portfolio_worst_return <= 0
          THEN Res.selected_initiatives = << >>
          ELSE Res.status = "Infeasible"

AllBelowThreshold ==
    \A i \in Indices :
        initiatives_data[i].confidence < min_confidence_threshold

\* C6: when every initiative is below the threshold the call returns
\* 'No Eligible Initiatives' with an all-zero Result, and never calls the
\* penalty model, augments a record or invokes a solver
C6_NoEligible ==
    AllBelowThreshold =>
        /\ pc \in {"filter", "done"}
        /\ gammaCalls = 0
        /\ idealSolves = 0
        /\ mainSolves = 0
        /\ \A i \in Indices :
              /\ initiatives_data[i].gamma = None
              /\ initiatives_data[i].effective_returns = EmptyMap
        /\ pc = "done" =>
              /\ Len(result) = 1
              /\ Res.status = "No Eligible Initiatives"
              /\ Res.selected_initiatives = << >>
              /\ Res.total_cost = 0
              /\ \A s \in ScenarioSet : Res.total_actual_returns[s] = 0

\* a non-empty list, filtered out whole, after the call has returned
C6_Witness ==
    /\ AllBelowThreshold
    /\ Indices # {}
    /\ Returned
    /\ Res.status = "No Eligible Initiatives"

\* C7: a failed scenario solve stores negative infinity, the loop still
\* solves the remaining scenarios, the call returns 'Error in V_j_star
\* calculation' with an empty selection, and the main solver is invoked only
\* after three finite ideals
C7_IdealFailure ==
    /\ \A s \in DOMAIN V_j_star :
          (s \in failedScenarios) <=> (V_j_star[s] = NegInf)
    /\ failedScenarios \subseteq DOMAIN V_j_star
    /\ (failedScenarios # {} /\ pc \notin {"scenario_returns"}) =>
          /\ DOMAIN V_j_star = ScenarioSet
          /\ idealSolves = 3
    /\ failedScenarios # {} =>
          /\ pc \in {"scenario_returns", "check", "done"}
          /\ mainSolves = 0
          /\ prob.status = "Not Solved"
          /\ pc = "done" =>
                /\ Len(result) = 1
                /\ Res.status = "Error in V_j_star calculation"
                /\ Res.selected_initiatives = << >>
    /\ (mainSolves > 0 \/ pc \in {"main", "assemble"}) =>
          /\ DOMAIN V_j_star = ScenarioSet
          /\ \A s \in ScenarioSet : V_j_star[s] # NegInf
          /\ idealSolves = 3

\* the first scenario failed, a later one was solved to a finite ideal, and
\* the call has returned
C7_Witness ==
    /\ Returned
    /\ "best" \in failedScenarios
    /\ "worst" \notin failedScenarios
    /\ Res.v_j_star["worst"] > 0

OutOfRange(i) ==
    \/ initiatives_data[i].confidence < 0
    \/ initiatives_data[i].confidence > One

\* C8: with the default penalty model an out-of-range confidence that passes
\* the filter aborts the call before any solver runs and without a Result;
\* a solver failure never aborts the call and ends in a Result
C8_AbortOnlyOnInvalidInput ==
    /\ (/\ confidence_penalty_func = "calculate_gamma"
        /\ \E i \in EligibleSet : OutOfRange(i)
        /\ pc \notin {"filter", "effective_returns"}) =>
          /\ pc = "aborted"
          /\ result = << >>
          /\ idealSolves = 0
          /\ mainSolves = 0
    /\ pc = "aborted" =>
          /\ confidence_penalty_func = "calculate_gamma"
          /\ \E i \in EligibleSet : OutOfRange(i)
          /\ result = << >>
    /\ (raisedSolves > 0 \/ failedScenarios # {}
            \/ prob.status \notin {"Not Solved", "Optimal"}) =>
          /\ pc # "aborted"
          /\ pc = "done" => Len(result) = 1
    /\ (raisedSolves > 0 /\ mainSolves > 0) =>
          (Returned /\ Res.status = "Error solving main problem")

\* the second eligible initiative is out of range: the first was augmented
\* before the call aborted
C8_Witness ==
    /\ pc = "aborted"
    /\ gammaCalls = 2
    /\ \E i \in Indices : initiatives_data[i].gamma # None

\* C10: on status Optimal min_max_regret is the largest of the three
\* per-scenario regrets of the returned selection
C10_ThetaIsMaxRegret ==
    IsOptimal =>
        /\ Res.min_max_regret =
              Some(MaxOf({ Res.regrets_for_selected_portfolio[s] :
                              s \in ScenarioSet }))
        /\ Res.min_max_regret = Some(WorstCaseRegret(SelectedSet))

\* the three regrets of the selection are not all equal
C10_Witness ==
    /\ IsOptimal
    /\ Res.min_max_regret # Some(0)
    /\ \E s \in ScenarioSet :
          Some(Res.regrets_for_selected_portfolio[s]) # Res.min_max_regret

----------------------------------------------------------------------------
(* Line 25 in floating point.  A float is an integer count of units of     *)
(* 1 / FlOne with at most Prec significant bits; every operation rounds    *)
(* its exact result to the nearest float, ties to even.                    *)

Prec == 4
FracBits == 5

RECURSIVE Pow2(_)
Pow2(n) == IF n <= 0 THEN 1 ELSE 2 * Pow2(n - 1)

RECURSIVE BitLen(_)
BitLen(m) == IF m = 0 THEN 0 ELSE 1 + BitLen(m \div 2)

Abs(n) == IF n < 0 THEN 0 - n ELSE n

FlOne == Pow2(FracBits)

\* the float nearest to n / d, for d a power of two
FlRound(n, d) ==
    LET m == Abs(n)
        sig == Pow2(BitLen(m) - Prec)
        q == IF sig > d THEN sig ELSE d
        lo == (m \div q) * q
        r == m - lo
        up == 2 * r > q \/ (2 * r = q /\ (m \div q) % 2 = 1)
        mag == (IF up THEN lo + q ELSE lo) \div d
    IN  IF n < 0 THEN 0 - mag ELSE mag

FlAdd(a, b) == FlRound(a + b, 1)
FlSub(a, b) == FlRound(a - b, 1)
FlMul(a, b) == FlRound(a * b, FlOne)

IsFloat(v) == FlRound(v, 1) = v

\* line 7
FlGammaRaises(confidence_score) ==
    ~(0 <= confidence_score /\ confidence_score <= FlOne)

\* line 9
FlCalculateGamma(confidence_score) == FlSub(FlOne, confidence_score)

\* mutant: the two weights are exchanged
M_FlBlend_Swapped(gamma_i, R_ij_base, R_worst) ==
    FlAdd(FlMul(gamma_i, R_ij_base), FlMul(FlSub(FlOne, gamma_i), R_worst))

\* line 25
FlBlend(gamma_i, R_ij_base, R_worst) ==
    FlAdd(FlMul(FlSub(FlOne, gamma_i), R_ij_base), FlMul(gamma_i, R_worst))

\* lines 14-26
FlAugment(initiative, gamma_i) ==
    [initiative EXCEPT
        !.gamma = Some(gamma_i),
        !.effective_returns =
            [s \in ScenarioSet |->
                FlBlend(gamma_i, R_base_map(initiative)[s], initiative.R_worst)]]

\* confidences: every float of [0, 1], and one float on either side
FlConfidences ==
    { c \in 0..FlOne : IsFloat(c) } \cup {0 - 1, FlOne + FlOne \div 2}

\* gammas a caller-supplied penalty model returns: the floats of [0, 1]
FlGammas == { g \in 0..FlOne : IsFloat(g) }

FlWorstReturns == { r * FlOne : r \in {0 - 5, 0, 3, 7, 11, 13} }
FlBestReturns == { r * FlOne : r \in {13, 15} }
FlMedReturns == { r * FlOne : r \in {9, 12} }

\* the default penalty model with every confidence, a caller-supplied one
\* with the confidences of [0, 1]
FlInputs ==
    { [pc |-> "start", func |-> f.func, custom |-> f.custom,
       initiative |-> [id |-> 1, cost |-> FlOne, confidence |-> f.confidence,
                       R_best |-> rb, R_med |-> rm, R_worst |-> rw,
                       gamma |-> None, effective_returns |-> EmptyMap]] :
        f \in [func : {"calculate_gamma"}, custom : {0},
                confidence : FlConfidences]
                \cup [func : {"custom"}, custom : FlGammas,
                      confidence : { c \in FlConfidences : ~FlGammaRaises(c) }],
        rb \in FlBestReturns, rm \in FlMedReturns, rw \in FlWorstReturns }

FlRaw(initiative) ==
    [id |-> initiative.id, cost |-> initiative.cost,
     confidence |-> initiative.confidence, R_best |-> initiative.R_best,
     R_med |-> initiative.R_med, R_worst |-> initiative.R_worst]

InitFl ==
    /\ fl \in { f @@ [raw |-> FlRaw(f.initiative)] :
                    f \in FlInputs }
    /\ initiatives_data = << >>
    /\ total_budget = 0
    /\ min_confidence_threshold = 0
    /\ min_portfolio_worst_return = 0
    /\ confidence_penalty_func = "calculate_gamma"
    /\ pc = "idle"
    /\ eligible_initiatives = << >>
    /\ V_j_star = EmptyMap
    /\ prob = NotSolved
    /\ result = << >>
    /\ gammaCalls = 0
    /\ idealSolves = 0
    /\ mainSolves = 0
    /\ failedScenarios = {}
    /\ raisedSolves = 0

\* lines 13-27 on a list of one initiative
FlCalcEffectiveReturns ==
    /\ fl.pc = "start"
    /\ ~(fl.func = "calculate_gamma" /\ FlGammaRaises(fl.initiative.confidence))
    /\ LET gamma_i == IF fl.func = "calculate_gamma"
                      THEN FlCalculateGamma(fl.initiative.confidence)
                      ELSE fl.custom
       IN  fl' = [fl EXCEPT !.pc = "done",
                            !.initiative = FlAugment(fl.initiative, gamma_i)]
    /\ UNCHANGED pipelineVars

\* lines 7-8 reached from line 15
FlValueError ==
    /\ fl.pc = "start"
    /\ fl.func = "calculate_gamma"
    /\ FlGammaRaises(fl.initiative.confidence)
    /\ fl' = [fl EXCEPT !.pc = "aborted"]
    /\ UNCHANGED pipelineVars

NextFl == FlCalcEffectiveReturns \/ FlValueError

SpecFl == InitFl /\ [][NextFl]_vars

FlDone == fl.pc = "done"
FlGammaOf == TheValue(fl.initiative.gamma)

\* the part of C9 about the best and median returns and the raw fields
C9_BlendAndRaw ==
    /\ \A s \in {"best", "med"} :
          fl.initiative.effective_returns[s] =
              FlRound(FlRound((FlRound(FlOne - FlGammaOf, 1))
                                * R_base_map(fl.raw)[s], FlOne)
                      + FlRound(FlGammaOf * fl.raw.R_worst, FlOne), 1)
    /\ FlRaw(fl.initiative) = fl.raw

\* C9 as stated: the worst effective return is the raw worst return, the best
\* and median ones are the blend, and the raw fields are unchanged
C9_Original ==
    FlDone =>
        /\ fl.initiative.effective_returns["worst"] = fl.raw.R_worst
        /\ C9_BlendAndRaw

\* C9 amended: the worst effective return is the raw worst return when gamma
\* is 0 or 1, and otherwise within a relative error of 2^(2 - Prec) of it
C9_EffectiveReturns ==
    FlDone =>
        /\ FlGammaOf \in {0, FlOne} =>
              fl.initiative.effective_returns["worst"] = fl.raw.R_worst
        /\ Abs(fl.initiative.effective_returns["worst"] - fl.raw.R_worst)
              * Pow2(Prec) <= 4 * Abs(fl.raw.R_worst)
        /\ C9_BlendAndRaw

\* a gamma strictly between 0 and 1 for which the blend of the worst return
\* with itself is rounded away from it
C9_Witness ==
    /\ FlDone
    /\ FlGammaOf \notin {0, FlOne}
    /\ fl.initiative.effective_returns["worst"] # fl.raw.R_worst
    /\ fl.initiative.effective_returns["best"] # fl.raw.R_best

====
